---- MODULE Spec2Model ----
(***************************************************************************)
(* Model of matrix-bot-calendar: the persisted Matrix session and its sync *)
(* loop (src/matrix.rs), the message handler, the weekly task and the      *)
(* digest (src/main.rs), and the CalDAV fetch (src/cal.rs, src/parser.rs,  *)
(* src/event.rs).                                                          *)
(*                                                                         *)
(* Strings the code inspects character by character (message bodies, the   *)
(* MATRIX_ROOM_IDS variable, event titles) are sequences of one-character  *)
(* strings; text the code only copies is a single opaque element.          *)
(* A read or write of the session file is one atomic step that either      *)
(* succeeds or fails leaving the file as it was.                           *)
(***************************************************************************)
EXTENDS Integers, Sequences, FiniteSets, TLC

\* ------------------------------------------------------------------ bounds
MaxLog == 2        \* events the homeserver timeline holds at most
MaxSync == 4       \* sync responses (hence cursors) the homeserver issues at most
MaxFires == 1      \* firings of the weekly tasks that are followed
MaxWeeks == 2      \* weeks the clock of the weekly schedule runs for
MaxDay == 3        \* days of June 2024 the compared EventTime values lie on

\* ------------------------------------------------------------- environment
None == 0          \* Option::None of a sync token (tokens are 1, 2, ...)
\* the first sync request of an invocation: not made yet, or made with a token
NoReq == [made |-> FALSE, token |-> None]
Req(tok) == [made |-> TRUE, token |-> tok]

BotUser == "@bot"
OtherUser == "@alice"

\* MATRIX_ROOM_IDS as the process reads it
RoomIdsEnv == <<"a", ",", "b">>

\* rooms of the homeserver and the state the client holds for each
Rooms == {<<"a">>, <<"b">>, <<"c">>}
InitRoomState == [r \in Rooms |-> IF r = <<"b">> THEN "Invited" ELSE "Joined"]

\* ------------------------------------------------------------------ strings
\* str::contains
Contains(s, p) ==
  \E i \in 0..(Len(s) - Len(p)) : SubSeq(s, i + 1, i + Len(p)) = p

RECURSIVE SplitFrom(_, _, _)
SplitFrom(s, sep, cur) ==
  IF s = <<>> THEN <<cur>>
  ELSE IF Head(s) = sep THEN <<cur>> \o SplitFrom(Tail(s), sep, <<>>)
  ELSE SplitFrom(Tail(s), sep, Append(cur, Head(s)))

\* room_ids.split(',').map(|s| s.to_string()).collect()
get_room_ids == SplitFrom(RoomIdsEnv, ",", <<>>)

SeqToSet(s) == {s[i] : i \in 1..Len(s)}

\* ------------------------------------------------------- event.rs: the model
Date(d) == [tag |-> "Date", day |-> d, secs |-> 0]
DateTime(d, s) == [tag |-> "DateTime", day |-> d, secs |-> s]

\* NaiveDateTime of a DateTime<Utc>, in seconds
naive_utc(t) == t.day * 86400 + t.secs

\* a date is taken at noon
and_hms_opt_noon(t) == t.day * 86400 + 43200

\* d.and_hms_opt(0, 0, 0): NaiveDateTime of a date at 00:00:00, in seconds
and_hms_opt_0(t) == t.day * 86400

IntCmp(x, y) == IF x < y THEN "Less" ELSE IF x = y THEN "Equal" ELSE "Greater"

\* impl Ord for EventTime
EventTimeCmp(a, b) ==
  CASE a.tag = "Date" /\ b.tag = "Date" -> IntCmp(a.day, b.day)
    [] a.tag = "DateTime" /\ b.tag = "DateTime" -> IntCmp(naive_utc(a), naive_utc(b))
    [] a.tag = "Date" /\ b.tag = "DateTime" -> IntCmp(and_hms_opt_0(a), naive_utc(b))
    [] a.tag = "DateTime" /\ b.tag = "Date" -> IntCmp(naive_utc(a), and_hms_opt_0(b))

\* impl PartialEq for EventTime
EventTimeEq(a, b) == EventTimeCmp(a, b) = "Equal"

\* impl Ord for Event
EventCmp(e, f) == EventTimeCmp(e.dtstart, f.dtstart)

NoEvent == [uid |-> <<>>, name |-> <<>>, dtstart |-> Date(0), dtend |-> Date(0),
            last_modified |-> DateTime(0, 0)]

\* Event::new_timed
new_timed(name, uid, dtstart, dtend, last_modified) ==
  [uid |-> uid, name |-> name, dtstart |-> DateTime(dtstart.day, dtstart.secs),
   dtend |-> DateTime(dtend.day, dtend.secs), last_modified |-> last_modified]

\* the constructor takes the two dates the other way round
new_all_day_swapped(name, uid, dtstart, dtend, last_modified) ==
  [uid |-> uid, name |-> name, dtstart |-> Date(dtend.day),
   dtend |-> Date(dtstart.day), last_modified |-> last_modified]

\* Event::new_all_day
new_all_day(name, uid, dtstart, dtend, last_modified) ==
  [uid |-> uid, name |-> name, dtstart |-> Date(dtstart.day),
   dtend |-> Date(dtend.day), last_modified |-> last_modified]

\* ------------------------------------------------------ parser.rs: one item
\* A property value is Option<String>: [some |-> FALSE] or [some |-> TRUE, s |-> v].
\* A timestamp text is written [form, day, secs]: form "utc" is
\* YYYYMMDDThhmmssZ, "local" is YYYYMMDDThhmmss, "date" is YYYYMMDD and "bad"
\* is any other text; day is the day of June 2024.
Some(v) == [some |-> TRUE, s |-> v]
NoValue == [some |-> FALSE, s |-> <<>>]
Ok(v) == [ok |-> TRUE, v |-> v, err |-> ""]
Err(e, dflt) == [ok |-> FALSE, v |-> dflt, err |-> e]

\* parse_date_time
parse_date_time(dt) ==
  IF dt.form = "utc" THEN Ok(DateTime(dt.day, dt.secs))
  ELSE Err("ParseError", DateTime(0, 0))

\* parse_date_time_from_property: Option<DateTime<Utc>>
parse_date_time_from_property(value) ==
  IF value.some /\ parse_date_time(value.s).ok
  THEN Some(parse_date_time(value.s).v) ELSE [some |-> FALSE, s |-> DateTime(0, 0)]

\* parse_event_time
parse_event_time(dt) ==
  IF dt.form = "utc" THEN Ok(DateTime(dt.day, dt.secs))
  ELSE IF dt.form = "local" THEN Ok(DateTime(dt.day, dt.secs))
  ELSE IF dt.form = "date" THEN Ok(Date(dt.day))
  ELSE Err("ParseError", Date(0))

\* a value that cannot be parsed gives a default time
parse_event_time_from_property_default(value) ==
  IF value.some /\ parse_event_time(value.s).ok
  THEN Some(parse_event_time(value.s).v) ELSE Some(Date(0))

\* parse_event_time_from_property: Option<EventTime>
parse_event_time_from_property(value) ==
  IF value.some /\ parse_event_time(value.s).ok
  THEN Some(parse_event_time(value.s).v) ELSE [some |-> FALSE, s |-> Date(0)]

\* to-dos and journals beside the event are ignored
assert_single_type_event_only(item) ==
  IF Len(item.events) = 1 THEN Ok(item.events[1])
  ELSE Err("Only a single EVENT is supported", <<>>)

\* assert_single_type
assert_single_type(item) ==
  IF Len(item.events) = 1
  THEN IF item.todos # 0 \/ item.journals # 0
       THEN Err("Only a single TODO or a single EVENT is supported", <<>>)
       ELSE Ok(item.events[1])
  ELSE Err("Only a single EVENT is supported", <<>>)

\* the value the property loop of parse leaves in a variable: the last
\* property of that name decides
RECURSIVE LastProp(_, _)
LastProp(props, n) ==
  IF props = <<>> THEN [found |-> FALSE, value |-> NoValue]
  ELSE LET rest == LastProp(Tail(props), n)
       IN IF rest.found THEN rest
          ELSE IF Head(props).name = n
               THEN [found |-> TRUE, value |-> Head(props).value]
               ELSE rest

\* parse(content, item_url): content is the sequence of items the iCal reader
\* yields, each [ok, events, todos, journals]
parse(content) ==
  IF content = <<>> THEN Err("Invalid iCal data to parse", NoEvent)
  ELSE IF ~content[1].ok THEN Err("Unable to parse iCal data", NoEvent)
  ELSE LET single == assert_single_type(content[1]) IN
  IF ~single.ok THEN Err(single.err, NoEvent)
  ELSE LET props == single.v
           name == LastProp(props, "SUMMARY").value
           uid == LastProp(props, "UID").value
           dtstart == IF LastProp(props, "DTSTART").found
                      THEN parse_event_time_from_property(LastProp(props, "DTSTART").value)
                      ELSE [some |-> FALSE, s |-> Date(0)]
           dtend == IF LastProp(props, "DTEND").found
                    THEN parse_event_time_from_property(LastProp(props, "DTEND").value)
                    ELSE [some |-> FALSE, s |-> Date(0)]
           last_modified == IF LastProp(props, "LAST-MODIFIED").found
                            THEN parse_date_time_from_property(LastProp(props, "LAST-MODIFIED").value)
                            ELSE [some |-> FALSE, s |-> DateTime(0, 0)]
       IN
  IF ~name.some THEN Err("Missing name", NoEvent)
  ELSE IF ~uid.some THEN Err("Missing UID", NoEvent)
  ELSE IF ~dtstart.some THEN Err("Missing DTSTART", NoEvent)
  ELSE IF ~dtend.some THEN Err("Missing DTEND", NoEvent)
  ELSE IF ~last_modified.some THEN Err("Missing LAST-MODIFIED", NoEvent)
  ELSE IF dtstart.s.tag = "DateTime" /\ dtend.s.tag = "Date"
       THEN Err("DTEND is a date, but DTSTART is a datetime", NoEvent)
  ELSE IF dtstart.s.tag = "Date" /\ dtend.s.tag = "DateTime"
       THEN Err("DTSTART is a date, but DTEND is a datetime", NoEvent)
  ELSE IF dtstart.s.tag = "Date" /\ dtstart.s.day > dtend.s.day
       THEN Err("DTSTART is after DTEND", NoEvent)
  ELSE IF Len(content) >= 2 /\ content[2].ok
       THEN Err("Parsing multiple items are not supported", NoEvent)
  ELSE IF dtstart.s.tag = "DateTime"
       THEN Ok(new_timed(name.s, uid.s, dtstart.s, dtend.s, last_modified.s))
       ELSE Ok(new_all_day(name.s, uid.s, dtstart.s, dtend.s, last_modified.s))

\* ------------------------------------------------------ cal.rs: the fetch
DAV == "DAV:"
CALDAV == "urn:ietf:params:xml:ns:caldav"

\* an XML element: text is the payload of a calendar-data element
Elem(name, ns, text, children) ==
  [name |-> name, ns |-> ns, text |-> text, children |-> children]

RECURSIVE find_elems(_, _)
RECURSIVE FindInChildren(_, _)
\* the loop of find_elems over root.children()
FindInChildren(children, searched_name) ==
  IF children = <<>> THEN <<>>
  ELSE (IF Head(children).name = searched_name
        THEN <<Head(children)>>
        ELSE find_elems(Head(children), searched_name))
       \o FindInChildren(Tail(children), searched_name)

\* find_elems
find_elems(root, searched_name) == FindInChildren(root.children, searched_name)

RECURSIVE MatchingAnyNamespace(_, _, _)
\* the namespace of a child is not looked at
MatchingAnyNamespace(children, name, ns) ==
  IF children = <<>> THEN <<>>
  ELSE (IF Head(children).name = name THEN <<Head(children)>> ELSE <<>>)
       \o MatchingAnyNamespace(Tail(children), name, ns)

RECURSIVE Matching(_, _, _)
\* children of an element that carry the given name and namespace
Matching(children, name, ns) ==
  IF children = <<>> THEN <<>>
  ELSE (IF Head(children).name = name /\ Head(children).ns = ns
        THEN <<Head(children)>> ELSE <<>>)
       \o Matching(Tail(children), name, ns)

RECURSIVE FlatMapChildren(_, _, _)
\* the elements of the given name and namespace among the children of elems
FlatMapChildren(elems, name, ns) ==
  IF elems = <<>> THEN <<>>
  ELSE Matching(Head(elems).children, name, ns) \o FlatMapChildren(Tail(elems), name, ns)

\* extract_calendar_data
extract_calendar_data(root) ==
  LET responses == Matching(root, "response", DAV)
      propstats == FlatMapChildren(responses, "propstat", DAV)
      props == FlatMapChildren(propstats, "prop", DAV)
      datas == FlatMapChildren(props, "calendar-data", CALDAV)
  IN [i \in 1..Len(datas) |-> datas[i].text]

\* status.is_success()
is_success(status) == status >= 200 /\ status <= 299

\* sub_request: the outcome of the HTTP exchange is
\* [transport |-> BOOLEAN, status, wellformed, root]
sub_request(http) ==
  IF http.transport THEN Err("transport", http)
  ELSE IF is_success(http.status) = FALSE THEN Err("Unexpected HTTP status code", http)
  ELSE Ok(http)

\* sub_request_and_extract_elems
sub_request_and_extract_elems(http, item) ==
  LET text == sub_request(http) IN
  IF ~text.ok THEN Err(text.err, <<>>)
  ELSE IF ~text.v.wellformed THEN Err("xml", <<>>)
  ELSE Ok(find_elems(text.v.root, item))

\* Vec::sort with Event's Ord: stable
RECURSIVE InsertSorted(_, _)
InsertSorted(sorted, e) ==
  IF sorted = <<>> THEN <<e>>
  ELSE IF EventCmp(e, Head(sorted)) = "Less" THEN <<e>> \o sorted
  ELSE <<Head(sorted)>> \o InsertSorted(Tail(sorted), e)

\* the events stay in the order of the response
SortEventsNone(events) == events

RECURSIVE SortEvents(_)
\* events.sort()
SortEvents(events) ==
  IF events = <<>> THEN <<>>
  ELSE InsertSorted(SortEvents(SubSeq(events, 1, Len(events) - 1)), events[Len(events)])

RECURSIVE ParseAllAbort(_)
\* the loop ends at the first payload that fails to parse
ParseAllAbort(datas) ==
  IF datas = <<>> THEN <<>>
  ELSE IF parse(Head(datas)).ok THEN <<parse(Head(datas)).v>> \o ParseAllAbort(Tail(datas))
  ELSE <<>>

RECURSIVE ParseAll(_)
\* the loop of get_calendar_events over calendar_data_vec
ParseAll(datas) ==
  IF datas = <<>> THEN <<>>
  ELSE (IF parse(Head(datas)).ok THEN <<parse(Head(datas)).v>> ELSE <<>>)
       \o ParseAll(Tail(datas))

\* the failed request surfaces as an error
FetchErrorResultErr == Err("request failed", <<>>)

\* what get_calendar_events returns when the request failed
FetchErrorResult == Ok(<<>>)

\* get_calendar_events: Result<Vec<Event>, String>
get_calendar_events(http) ==
  LET responses_result == sub_request_and_extract_elems(http, "response") IN
  IF ~responses_result.ok THEN FetchErrorResult
  ELSE Ok(SortEvents(ParseAll(extract_calendar_data(responses_result.v))))

\* ----------------------------------------------------- main.rs: the digest
\* June 2024: day 1 is a Saturday
WeekdayName(day) ==
  <<"Monday", "Tuesday", "Wednesday", "Thursday", "Friday", "Saturday", "Sunday">>[((day + 4) % 7) + 1]

TwoDigits(n) == IF n < 10 THEN "0" \o ToString(n) ELSE ToString(n)

\* "%A, %-d %B, %C%y"
FormatDate(day) == <<WeekdayName(day), ", ", ToString(day), " June, 2024">>

\* "%-I:%M %p"
FormatTime(secs) ==
  LET h == secs \div 3600
      m == (secs % 3600) \div 60
  IN <<ToString(((h + 11) % 12) + 1), ":", TwoDigits(m), IF h < 12 THEN " AM" ELSE " PM">>

\* format_datetime
format_datetime(t) ==
  IF t.tag = "Date" THEN FormatDate(t.day)
  ELSE FormatTime(t.secs) \o <<" ">> \o FormatDate(t.day)

\* every pair of one variant is rendered with both sides in full
format_event_times_full(start, end) ==
  IF start.tag = end.tag
  THEN format_datetime(start) \o <<" - ">> \o format_datetime(end) \o <<"\n">>
  ELSE <<"Invalid Date: Check Calendar">>

\* format_event_times (the en dash of the source is written "-")
format_event_times(start, end) ==
  CASE start.tag = "Date" /\ end.tag = "Date" ->
         IF start.day = end.day - 1
         THEN format_datetime(start) \o <<" - All Day">>
         ELSE format_datetime(start) \o <<" - ">> \o format_datetime(end) \o <<"\n">>
    [] start.tag = "DateTime" /\ end.tag = "DateTime" ->
         IF start.day = end.day
         THEN FormatTime(start.secs) \o <<" - ">> \o format_datetime(end) \o <<"\n">>
         ELSE format_datetime(start) \o <<" - ">> \o format_datetime(end) \o <<"\n">>
    [] OTHER -> <<"Invalid Date: Check Calendar">>

RECURSIVE EventsBody(_)
\* the plain-text part of the loop of get_events_message
EventsBody(events) ==
  IF events = <<>> THEN <<>>
  ELSE Head(events).name \o <<": \n">>
       \o format_event_times(Head(events).dtstart, Head(events).dtend)
       \o <<"\n\n">> \o EventsBody(Tail(events))

RECURSIVE EventsHtml(_)
\* the rich-text part of the loop of get_events_message
EventsHtml(events) ==
  IF events = <<>> THEN <<>>
  ELSE <<"<p><strong>">> \o Head(events).name \o <<"</strong><br />">>
       \o format_event_times(Head(events).dtstart, Head(events).dtend)
       \o <<"</p>">> \o EventsHtml(Tail(events))

FailedBody == <<"Failed to get calendar events">>
NoEventsText == "No events in the calendar this week"

\* get_events_message: (body, html_body)
get_events_message(http) ==
  LET result == get_calendar_events(http) IN
  IF result.ok
  THEN [body |-> <<"Upcoming Events">>
                 \o (IF Len(result.v) = 0 THEN <<NoEventsText>> ELSE <<>>)
                 \o EventsBody(result.v),
        html_body |-> <<"<h3>Upcoming Events</h3><br />">>
                 \o (IF Len(result.v) = 0 THEN <<"<p>" \o NoEventsText \o "</p>">> ELSE <<>>)
                 \o EventsHtml(result.v)]
  ELSE [body |-> FailedBody,
        html_body |-> <<"<p>Failed to get calendar events</p>">>]

\* the handler answers only "!calendar"
IsTriggerCalendarOnly(body) ==
  Contains(body, <<"!", "c", "a", "l", "e", "n", "d", "a", "r">>)

\* text_content.body.contains("!calendar") || text_content.body.contains("!cal")
IsTrigger(body) ==
  \/ Contains(body, <<"!", "c", "a", "l", "e", "n", "d", "a", "r">>)
  \/ Contains(body, <<"!", "c", "a", "l">>)

\* the early returns of on_room_message
Handled(state, room, msgtype) ==
  /\ ~(state # "Joined" \/ ~(\E i \in 1..Len(get_room_ids) : get_room_ids[i] = room))
  /\ msgtype = "Text"

\* ------------------------------------------- main.rs: the weekly schedule
\* Time is counted in hours from a Monday 00:00 UTC.
Day == 24
Week == 7 * Day              \* StdDuration::from_secs(7 * 24 * 60 * 60)
Sun == 6                     \* Weekday::Sun.num_days_from_monday()
NineOClock == 9              \* and_hms_opt(9, 0, 0)

\* now.weekday().num_days_from_monday() and now.date(), the date as a day number
num_days_from_monday(now) == (now \div Day) % 7
date(now) == now \div Day

days_until_sunday(now) == (Sun + 7 - num_days_from_monday(now)) % 7
next_sunday(now) == date(now) + days_until_sunday(now)
target_time(now) == next_sunday(now) * Day + NineOClock

\* (target_time - now).to_std().unwrap_or(StdDuration::from_secs(0)): to_std
\* fails on a negative duration
duration_until_target(now) ==
  IF target_time(now) - now < 0 THEN 0 ELSE target_time(now) - now

\* start: the instant of the first tick of interval_at
start(now) == now + duration_until_target(now)

\* a firing that failed is tried again an hour later
NextTickRetry(deadline, outcome) ==
  IF outcome = "sent" THEN deadline + Week ELSE deadline + 1

\* interval.tick(): the deadline that follows a deadline, whatever the loop
\* body did at it
NextTick(deadline, outcome) == deadline + Week

\* what one run of the loop body of post_weekly_message can come to
FireOutcomes == {"sent", "send_failed", "no_room"}

\* ------------------------------------------------ inputs the model draws from
Prop(n, v) == [name |-> n, value |-> v]
TimeText(form, day, secs) == [form |-> form, day |-> day, secs |-> secs]
Item(events) == [ok |-> TRUE, events |-> events, todos |-> 0, journals |-> 0]

\* a timed event on 17 June 2024, 2:00 PM to 3:00 PM
TimedPayload ==
  <<Item(<<<<Prop("SUMMARY", Some(<<"P", "i", "c", "n", "i", "c">>)),
            Prop("UID", Some(<<"u1">>)),
            Prop("DTSTART", Some(TimeText("utc", 17, 50400))),
            Prop("DTEND", Some(TimeText("utc", 17, 54000))),
            Prop("LAST-MODIFIED", Some(TimeText("utc", 10, 0)))>>>>)>>

\* an all-day event on 16 June 2024 whose title holds a trigger
AllDayPayload ==
  <<Item(<<<<Prop("SUMMARY", Some(<<"!", "c", "a", "l">>)),
            Prop("UID", Some(<<"u2">>)),
            Prop("DTSTART", Some(TimeText("date", 16, 0))),
            Prop("DTEND", Some(TimeText("date", 17, 0))),
            Prop("LAST-MODIFIED", Some(TimeText("utc", 10, 0)))>>>>)>>

\* a timed event that starts on 16 June 2024 at midnight UTC
MidnightPayload ==
  <<Item(<<<<Prop("SUMMARY", Some(<<"N", "i", "g", "h", "t">>)),
            Prop("UID", Some(<<"u3">>)),
            Prop("DTSTART", Some(TimeText("utc", 16, 0))),
            Prop("DTEND", Some(TimeText("utc", 16, 3600))),
            Prop("LAST-MODIFIED", Some(TimeText("utc", 10, 0)))>>>>)>>

\* an event without UID
NoUidPayload ==
  <<Item(<<<<Prop("SUMMARY", Some(<<"X">>)),
            Prop("DTSTART", Some(TimeText("date", 15, 0))),
            Prop("DTEND", Some(TimeText("date", 16, 0))),
            Prop("LAST-MODIFIED", Some(TimeText("utc", 10, 0)))>>>>)>>

Leaf(name, ns) == Elem(name, ns, <<>>, <<>>)
ResponseElem(payload) ==
  Elem("response", DAV, <<>>,
       <<Leaf("href", DAV),
         Elem("propstat", DAV, <<>>,
              <<Elem("prop", DAV, <<>>,
                     <<Leaf("getetag", DAV),
                       Elem("calendar-data", CALDAV, payload, <<>>)>>),
                Leaf("status", DAV)>>)>>)
Multistatus(children) == Elem("multistatus", DAV, <<>>, children)

NoHttp == [transport |-> TRUE, status |-> 0, wellformed |-> FALSE, root |-> Multistatus(<<>>)]
HttpOk(root) == [transport |-> FALSE, status |-> 207, wellformed |-> TRUE, root |-> root]

\* the outcomes of the REPORT request that are followed
Responses ==
  << NoHttp,
     [transport |-> FALSE, status |-> 500, wellformed |-> TRUE,
      root |-> Multistatus(<<ResponseElem(TimedPayload)>>)],
     [transport |-> FALSE, status |-> 207, wellformed |-> FALSE, root |-> Multistatus(<<>>)],
     HttpOk(Multistatus(<<>>)),
     HttpOk(Multistatus(<<ResponseElem(TimedPayload)>>)),
     HttpOk(Multistatus(<<ResponseElem(TimedPayload), ResponseElem(NoUidPayload),
                          ResponseElem(AllDayPayload)>>)) >>

\* the request failed entirely: transport error, non-2xx status, or a body
\* that is not well-formed XML
FetchFailed(http) ==
  http.transport \/ http.status < 200 \/ http.status > 299 \/ ~http.wellformed

\* a room message event; state_key belongs to state events only
Msg(room, sender, msgtype, body) ==
  [room |-> room, sender |-> sender, msgtype |-> msgtype, body |-> body,
   state_key |-> ""]

\* a stripped m.room.member event of the invite state of a room
Member == "m.room.member"
Invite(room, sender, state_key) ==
  [room |-> room, sender |-> sender, msgtype |-> Member, body |-> <<>>,
   state_key |-> state_key]

\* the messages other users post
UserMsgs ==
  { Msg(<<"a">>, OtherUser, "Text", <<"x", "!", "c", "a", "l">>),
    Msg(<<"a">>, OtherUser, "Text", <<"c", "a", "l", "!">>),
    Msg(<<"a">>, OtherUser, "Image", <<"!", "c", "a", "l">>),
    Msg(<<"b">>, OtherUser, "Text", <<"!", "c", "a", "l", "e", "n", "d", "a", "r">>),
    Msg(<<"c">>, OtherUser, "Text", <<"!", "c", "a", "l">>) }

\* the member events an invitation to room b brings: the invitation of the
\* bot, and the membership of the user who sent it
InviteMsgs ==
  { Invite(<<"b">>, OtherUser, BotUser),
    Invite(<<"b">>, OtherUser, OtherUser) }

\* ------------------------------------------------------------------- state
VARIABLES
  file,        \* the session file: a FullSession, or NoFile
  store_rooms, \* the SQLite store of the client holds the rooms (it has synced)
  log,         \* the timeline of the homeserver, oldest event first
  issued,      \* issued[t] is the timeline position the sync token t stands for
  roomState,   \* the state of each room for the bot
  pc,          \* the position of main / sync; "down" when no process runs
  client,      \* the Client of the running process
  token,       \* sync_settings.token
  handlers,    \* on_room_message and on_room_invite are registered
  batch,       \* the sync response being processed
  pos,         \* timeline position up to which the response has been handled
  tasks,       \* the weekly task of each configured room id
  hist,        \* per timeline event: handler runs, fetches, sends and joins
               \* it caused
  mode,        \* how this invocation got its session: "restore", "login", or
               \* "login_failed" once login_username has returned an error
  logins,      \* login_username calls of this invocation
  firstReq,    \* the token of the first sync request of this invocation
  startFile,   \* the session file as the invocation found it
  outcome,     \* how the last invocation ended, "running" while it runs
  lastNext,    \* next_batch of the last batch the listening loop completed
  resumeFrom,  \* lastNext of a process killed between two batches, until the
               \* next invocation has synced
  fires,       \* firings of weekly tasks so far
  fetchIn,     \* an outcome of the REPORT request handed to the fetch
  fetchOut,    \* what get_calendar_events and get_events_message made of it
  clock,       \* Utc::now(), in hours since a Monday 00:00 UTC
  weekly,      \* per configured room id: the interval of its weekly task
  cmpIn,       \* three EventTime values handed to the comparison
  cmpOut,      \* what cmp and eq made of them
  parseIn,     \* a calendar-data payload handed to parse
  parseOut     \* what parse made of it

durable == <<file, store_rooms>>
server == <<log, issued, roomState>>
process == <<pc, client, token, handlers, batch, pos, tasks>>
ghost == <<hist, mode, logins, firstReq, startFile, outcome, lastNext, resumeFrom,
           fires>>
fetch == <<fetchIn, fetchOut>>
schedule == <<clock, weekly>>
ordering == <<cmpIn, cmpOut>>
parsing == <<parseIn, parseOut>>
vars == <<durable, server, process, ghost, fetch, schedule, ordering, parsing>>

Seeds == {1}       \* what thread_rng and the homeserver hand out at login

NoFile == [exists |-> FALSE, homeserver |-> "", db_path |-> "", passphrase |-> "",
           user_session |-> "", sync_token |-> None]
NoClient == [homeserver |-> "", db_path |-> "", passphrase |-> "", user_session |-> ""]
NoBatch == [from |-> 0, to |-> 0, next |-> None]
NoOut ==
  [done |-> FALSE, events |-> Ok(<<>>), body |-> <<>>, html_body |-> <<>>,
   elems |-> Ok(<<>>), datas |-> <<>>]
HistZero == [disp |-> 0, fetches |-> 0, sends |-> 0, joins |-> 0, to |-> <<>>,
             ok |-> FALSE]
NoTask == [state |-> "none", now |-> 0, next |-> 0, n |-> 0, last |-> 0,
           outcome |-> "none", before |-> "none"]
NoCmp == [done |-> FALSE, ab |-> "Equal", ba |-> "Equal", bc |-> "Equal",
          ac |-> "Equal", eq |-> TRUE, rendered |-> <<>>]
NoParse == [done |-> FALSE, result |-> Err("", NoEvent), rendered |-> <<>>]

Homeserver == "https://hs"
WatchIds == SeqToSet(get_room_ids)

\* the record written at login lacks the user session
FullSessionNoUser(client_session, user_session, sync_token) ==
  [exists |-> TRUE, homeserver |-> client_session.homeserver,
   db_path |-> client_session.db_path, passphrase |-> client_session.passphrase,
   user_session |-> "", sync_token |-> sync_token]

\* FullSession as serialized to the session file
FullSession(client_session, user_session, sync_token) ==
  [exists |-> TRUE, homeserver |-> client_session.homeserver,
   db_path |-> client_session.db_path, passphrase |-> client_session.passphrase,
   user_session |-> user_session, sync_token |-> sync_token]

\* build_client: the ClientSession of a new client
build_client(homeserver, seed) ==
  [homeserver |-> homeserver, db_path |-> "data/" \o ToString(seed),
   passphrase |-> "pass" \o ToString(seed)]

\* the client reports a session although login_username failed
session_after_login_any(login_ok, seed) == Some("session" \o ToString(seed))

\* matrix_auth.session() after login_username returned
session_after_login(login_ok, seed) ==
  IF login_ok THEN Some("session" \o ToString(seed)) ELSE [some |-> FALSE, s |-> ""]

\* the cursor write rebuilds the record and loses the passphrase
persist_sync_token_rebuild(full_session, sync_token) ==
  [full_session EXCEPT !.sync_token = sync_token, !.passphrase = ""]

\* persist_sync_token: the record it writes back
persist_sync_token(full_session, sync_token) ==
  [full_session EXCEPT !.sync_token = sync_token]

\* the handlers are added before the initial sync loop
HandlersBeforeInitialSyncEarly == TRUE

\* client.add_event_handler runs after the initial sync loop
HandlersBeforeInitialSync == FALSE

\* the cursor write skips a batch without events
CallbackTokenSkipEmpty(response, persisted) ==
  IF response.from = response.to THEN persisted ELSE response.next

\* the cursor the callback of sync_with_result_callback persists
CallbackToken(response, persisted) == response.next

\* the initial loop gives up on an error
AfterInitialSyncErrorGiveUp == "down"

\* pc after a failed sync_once of the initial loop
AfterInitialSyncError == "initial_sync"

\* the loop goes on although the cursor was not written
AfterCursorWriteErrorGoOn == "wait"

\* pc after persist_sync_token returned an error: `?` ends sync, and main
AfterCursorWriteError == "down"

\* the homeserver answers a sync request made with the token tok
SyncResponse(tok) ==
  [from |-> IF tok = None THEN 0 ELSE issued[tok], to |-> Len(log),
   next |-> Len(issued) + 1]
CanSync == Len(issued) < MaxSync

\* no process has run yet
NoProcess ==
  /\ file = NoFile /\ store_rooms = FALSE
  /\ log = <<>> /\ issued = <<>> /\ roomState = InitRoomState
  /\ pc = "down" /\ client = NoClient /\ token = None /\ handlers = FALSE
  /\ batch = NoBatch /\ pos = 0 /\ tasks = [r \in WatchIds |-> "none"]
  /\ hist = <<>> /\ mode = "none" /\ logins = 0 /\ firstReq = NoReq
  /\ startFile = NoFile /\ outcome = "never" /\ lastNext = None
  /\ resumeFrom = None /\ fires = 0

\* the parts of the program that are followed on their own, at rest
NoFetch == fetchIn = NoHttp /\ fetchOut = NoOut
NoSchedule == clock = 0 /\ weekly = [r \in WatchIds |-> NoTask]
NoOrdering == cmpIn = <<Date(1), Date(1), Date(1)>> /\ cmpOut = NoCmp
NoParsing == parseIn = <<>> /\ parseOut = NoParse

Init == NoProcess /\ NoFetch /\ NoSchedule /\ NoOrdering /\ NoParsing

\* the process ends (main returns an error, panics, or is killed): what it
\* held in memory is gone, its tasks with it
Terminate(reason) ==
  /\ pc' = "down"
  /\ client' = NoClient /\ token' = None /\ handlers' = FALSE
  /\ batch' = NoBatch /\ pos' = 0 /\ tasks' = [r \in WatchIds |-> "none"]
  /\ outcome' = reason
  /\ startFile' = NoFile /\ lastNext' = None
  /\ resumeFrom' = IF reason = "killed" /\ pc = "wait" THEN lastNext ELSE None

\* the process goes on
Continue == UNCHANGED <<outcome, startFile, lastNext, resumeFrom>>

\* main up to the branch on session_file.exists(); the dry run of
\* get_events_message before it leaves no state behind
Start ==
  /\ pc = "down"
  /\ pc' = IF file.exists THEN "restore" ELSE "login"
  /\ mode' = IF file.exists THEN "restore" ELSE "login"
  /\ logins' = 0 /\ firstReq' = NoReq /\ startFile' = file
  /\ outcome' = "running" /\ lastNext' = None
  /\ UNCHANGED <<durable, server, client, token, handlers, batch, pos, tasks, hist,
                 resumeFrom, fires>>
  /\ UNCHANGED <<fetch, schedule, ordering, parsing>>

\* restore_session
RestoreSession ==
  /\ pc = "restore"
  /\ \E read_ok \in BOOLEAN :
       IF read_ok
       THEN /\ client' = [homeserver |-> file.homeserver, db_path |-> file.db_path,
                          passphrase |-> file.passphrase, user_session |-> file.user_session]
            /\ token' = file.sync_token
            /\ pc' = "spawn"
            /\ Continue
            /\ UNCHANGED <<handlers, batch, pos, tasks>>
       ELSE Terminate("restore_failed")
  /\ UNCHANGED <<durable, server, hist, mode, logins, firstReq, fires>>
  /\ UNCHANGED <<fetch, schedule, ordering, parsing>>

\* login
Login ==
  /\ pc = "login"
  /\ \E result \in {"build_err", "login_err", "write_err", "ok"}, seed \in Seeds :
       LET client_session == build_client(Homeserver, seed)
           user_session == session_after_login(result # "login_err", seed)
       IN IF result = "build_err"
          THEN /\ Terminate("build_failed")
               /\ UNCHANGED <<file, logins, mode>>
          ELSE /\ logins' = logins + 1
               /\ mode' = IF result = "login_err" THEN "login_failed" ELSE mode
               /\ IF ~user_session.some
                  THEN /\ Terminate("login_failed")
                       /\ UNCHANGED file
                  ELSE IF result = "write_err"
                  THEN /\ Terminate("write_failed")
                       /\ UNCHANGED file
                  ELSE /\ file' = FullSession(client_session, user_session.s, None)
                       /\ client' = [homeserver |-> client_session.homeserver,
                                     db_path |-> client_session.db_path,
                                     passphrase |-> client_session.passphrase,
                                     user_session |-> user_session.s]
                       /\ token' = None
                       /\ pc' = "spawn"
                       /\ Continue
                       /\ UNCHANGED <<handlers, batch, pos, tasks>>
  /\ UNCHANGED <<store_rooms, server, hist, firstReq, fires>>
  /\ UNCHANGED <<fetch, schedule, ordering, parsing>>

\* main: one weekly task per configured room id, then the call of sync
SpawnTasks ==
  /\ pc = "spawn"
  /\ tasks' = [r \in WatchIds |-> "running"]
  /\ handlers' = HandlersBeforeInitialSync
  /\ pc' = "initial_sync"
  /\ UNCHANGED <<durable, server, client, token, batch, pos, ghost>>
  /\ UNCHANGED <<fetch, schedule, ordering, parsing>>

\* a sync response arrives: the client handles its events with the handlers
\* registered at that time, one event per step
Receive(response, first, rest) ==
  /\ issued' = Append(issued, response.to)
  /\ batch' = response
  /\ pos' = IF handlers THEN response.from ELSE response.to
  /\ store_rooms' = TRUE
  /\ pc' = IF handlers /\ response.from < response.to THEN first ELSE rest

\* sync: client.sync_once of the initial loop fails
InitialSyncFail ==
  /\ pc = "initial_sync"
  /\ firstReq' = IF firstReq = NoReq THEN Req(token) ELSE firstReq
  /\ IF AfterInitialSyncError = "down"
     THEN Terminate("sync_error")
     ELSE /\ pc' = AfterInitialSyncError
          /\ Continue
          /\ UNCHANGED <<client, token, handlers, batch, pos, tasks>>
  /\ UNCHANGED <<durable, server, hist, mode, logins, fires>>
  /\ UNCHANGED <<fetch, schedule, ordering, parsing>>

\* sync: client.sync_once of the initial loop succeeds
InitialSyncOk ==
  /\ pc = "initial_sync"
  /\ CanSync
  /\ firstReq' = IF firstReq = NoReq THEN Req(token) ELSE firstReq
  /\ Receive(SyncResponse(token), "initial_dispatch", "initial_persist")
  /\ Continue
  /\ UNCHANGED <<file, log, roomState, client, token, handlers, tasks, hist, mode,
                 logins, fires>>
  /\ UNCHANGED <<fetch, schedule, ordering, parsing>>

\* sync: the Ok arm of the initial loop, then the handlers are added
PersistInitial ==
  /\ pc = "initial_persist"
  /\ \E io_ok \in BOOLEAN :
       IF io_ok
       THEN /\ token' = batch.next
            /\ file' = persist_sync_token(file, batch.next)
            /\ handlers' = TRUE
            /\ pc' = "wait"
            /\ resumeFrom' = None
            /\ UNCHANGED <<client, batch, pos, tasks, outcome, startFile, lastNext>>
       ELSE /\ IF AfterCursorWriteError = "down"
               THEN Terminate("persist_failed")
               ELSE /\ pc' = AfterCursorWriteError
                    /\ Continue
                    /\ UNCHANGED <<client, token, handlers, batch, pos, tasks>>
            /\ UNCHANGED file
  /\ UNCHANGED <<store_rooms, server, hist, mode, logins, firstReq, fires>>
  /\ UNCHANGED <<fetch, schedule, ordering, parsing>>

\* sync_with_result_callback: the next sync request returns a response
ListenOk ==
  /\ pc = "wait"
  /\ CanSync
  /\ Receive(SyncResponse(token), "dispatch", "persist")
  /\ UNCHANGED <<file, log, roomState, client, token, handlers, tasks, ghost>>
  /\ UNCHANGED <<fetch, schedule, ordering, parsing>>

\* sync_with_result_callback: the request fails, the callback returns the error
ListenErr ==
  /\ pc = "wait"
  /\ Terminate("sync_error")
  /\ UNCHANGED <<durable, server, hist, mode, logins, firstReq, fires>>
  /\ UNCHANGED <<fetch, schedule, ordering, parsing>>

\* the callback of sync_with_result_callback on a received response
PersistBatch ==
  /\ pc = "persist"
  /\ \E io_ok \in BOOLEAN :
       IF io_ok
       THEN /\ file' = persist_sync_token(file, CallbackToken(batch, file.sync_token))
            /\ token' = batch.next
            /\ lastNext' = batch.next
            /\ pc' = "wait"
            /\ UNCHANGED <<client, handlers, batch, pos, tasks, outcome, startFile,
                           resumeFrom>>
       ELSE /\ IF AfterCursorWriteError = "down"
               THEN Terminate("persist_failed")
               ELSE /\ pc' = AfterCursorWriteError
                    /\ Continue
                    /\ UNCHANGED <<client, token, handlers, batch, pos, tasks>>
            /\ UNCHANGED file
  /\ UNCHANGED <<store_rooms, server, hist, mode, logins, firstReq, fires>>
  /\ UNCHANGED <<fetch, schedule, ordering, parsing>>

\* a failed send is tried once more
SendAttemptsRetry(ok) == IF ok THEN 1 ELSE 2

\* calls of room.send for one trigger, given the outcome of the first
SendAttempts(ok) == 1

\* room.send: a message that was sent is appended to the timeline
Deliver(ok, room, body) ==
  log' = IF ok THEN Append(log, Msg(room, BotUser, "Text", body)) ELSE log
CanSend(ok) == ok => Len(log) < MaxLog

\* every member event is taken for an invitation of the bot
InviteForAnyone(state_key, own_user_id) == TRUE

\* event.state_key == *room.own_user_id()
InviteForMe(state_key, own_user_id) == state_key = own_user_id

\* on_room_invite for the event at timeline position i
on_room_invite(i) ==
  LET m == log[i]
      h == [hist[i] EXCEPT !.disp = @ + 1]
  IN /\ IF InviteForMe(m.state_key, BotUser)
        THEN \E ok \in BOOLEAN :
               /\ roomState' = IF ok THEN [roomState EXCEPT ![m.room] = "Joined"]
                                ELSE roomState
               /\ hist' = [hist EXCEPT ![i] = [h EXCEPT !.joins = @ + 1, !.ok = ok]]
        ELSE /\ hist' = [hist EXCEPT ![i] = h]
             /\ UNCHANGED roomState
     /\ UNCHANGED log

\* on_room_message for the event at timeline position i
on_room_message(i) ==
  LET m == log[i]
      h == [hist[i] EXCEPT !.disp = @ + 1]
  IN /\ IF ~Handled(roomState[m.room], m.room, m.msgtype)
        THEN /\ hist' = [hist EXCEPT ![i] = h]
             /\ UNCHANGED log
        ELSE \E k \in 1..Len(Responses) :
               LET digest == get_events_message(Responses[k])
                   f == [h EXCEPT !.fetches = @ + 1]
               IN IF IsTrigger(m.body)
                  THEN \E ok \in BOOLEAN :
                         /\ CanSend(ok)
                         /\ Deliver(ok, m.room, digest.body)
                         /\ hist' = [hist EXCEPT ![i] =
                                       [f EXCEPT !.sends = @ + SendAttempts(ok), !.to = m.room,
                                                 !.ok = ok]]
                                    \o (IF ok THEN <<HistZero>> ELSE <<>>)
                  ELSE /\ hist' = [hist EXCEPT ![i] = f]
                       /\ UNCHANGED log
     /\ UNCHANGED roomState

\* the client hands the next event of the response to the handler registered
\* for its kind
Dispatch ==
  /\ pc \in {"initial_dispatch", "dispatch"}
  /\ pos < batch.to
  /\ IF log[pos + 1].msgtype = Member
     THEN on_room_invite(pos + 1)
     ELSE on_room_message(pos + 1)
  /\ pos' = pos + 1
  /\ pc' = IF pos + 1 < batch.to THEN pc
           ELSE IF pc = "dispatch" THEN "persist" ELSE "initial_persist"
  /\ Continue
  /\ UNCHANGED <<durable, issued, client, token, handlers, batch, tasks,
                 mode, logins, firstReq, fires>>
  /\ UNCHANGED <<fetch, schedule, ordering, parsing>>

\* post_weekly_message: one tick of the interval
WeeklyFire(r) ==
  /\ pc # "down"
  /\ tasks[r] = "running"
  /\ fires < MaxFires
  /\ fires' = fires + 1
  /\ IF store_rooms /\ r \in DOMAIN roomState
     THEN \E k \in 1..Len(Responses), ok \in BOOLEAN :
            LET digest == get_events_message(Responses[k]) IN
            /\ CanSend(ok)
            /\ ok => roomState[r] = "Joined"
            /\ Deliver(ok, r, digest.body)
            /\ hist' = hist \o (IF ok THEN <<HistZero>> ELSE <<>>)
     ELSE UNCHANGED <<log, hist>>
  /\ Continue
  /\ UNCHANGED <<durable, issued, roomState, process, mode, logins, firstReq>>
  /\ UNCHANGED <<fetch, schedule, ordering, parsing>>

\* another user posts a message
ServerPost(m) ==
  /\ Len(log) < MaxLog
  /\ log' = Append(log, m)
  /\ hist' = Append(hist, HistZero)
  /\ Continue
  /\ UNCHANGED <<durable, issued, roomState, process, mode, logins, firstReq, fires>>
  /\ UNCHANGED <<fetch, schedule, ordering, parsing>>

\* the process is killed
Crash ==
  /\ pc # "down"
  /\ Terminate("killed")
  /\ UNCHANGED <<durable, server, hist, mode, logins, firstReq, fires>>
  /\ UNCHANGED <<fetch, schedule, ordering, parsing>>

Next ==
  \/ Start
  \/ RestoreSession
  \/ Login
  \/ SpawnTasks
  \/ InitialSyncFail
  \/ InitialSyncOk
  \/ PersistInitial
  \/ ListenOk
  \/ ListenErr
  \/ Dispatch
  \/ PersistBatch
  \/ \E r \in WatchIds : WeeklyFire(r)
  \/ \E m \in UserMsgs : ServerPost(m)
  \/ Crash

Spec == Init /\ [][Next]_vars

\* the program left to run: nobody kills the process; a sync request of the
\* initial loop that can succeed eventually does, and the cursor write that
\* follows it is carried out
LiveNext ==
  \/ Start
  \/ RestoreSession
  \/ Login
  \/ SpawnTasks
  \/ InitialSyncFail
  \/ InitialSyncOk
  \/ PersistInitial
  \/ ListenOk
  \/ ListenErr
  \/ Dispatch
  \/ PersistBatch
  \/ \E r \in WatchIds : WeeklyFire(r)
  \/ \E m \in UserMsgs : ServerPost(m)

LiveSpec ==
  /\ Init
  /\ [][LiveNext]_vars
  /\ WF_vars(InitialSyncOk)
  /\ WF_vars(Dispatch)
  /\ WF_vars(PersistInitial)

\* the program while a user invites the bot to room b
InviteNext ==
  \/ Start
  \/ RestoreSession
  \/ Login
  \/ SpawnTasks
  \/ InitialSyncFail
  \/ InitialSyncOk
  \/ PersistInitial
  \/ ListenOk
  \/ ListenErr
  \/ Dispatch
  \/ PersistBatch
  \/ \E r \in WatchIds : WeeklyFire(r)
  \/ \E m \in InviteMsgs : ServerPost(m)
  \/ Crash

InviteSpec == Init /\ [][InviteNext]_vars

\* the process while other users post a command in room a and invite the bot
\* to room b
MixedNext ==
  \/ Start
  \/ RestoreSession
  \/ Login
  \/ SpawnTasks
  \/ InitialSyncFail
  \/ InitialSyncOk
  \/ PersistInitial
  \/ ListenOk
  \/ ListenErr
  \/ Dispatch
  \/ PersistBatch
  \/ \E r \in WatchIds : WeeklyFire(r)
  \/ \E m \in {Msg(<<"a">>, OtherUser, "Text", <<"!", "c", "a", "l">>),
               Invite(<<"b">>, OtherUser, BotUser)} : ServerPost(m)
  \/ Crash

MixedSpec == Init /\ [][MixedNext]_vars

\* ------------------------------------------- the fetch as a pure function
Docs ==
  { Multistatus(<<>>),
    Multistatus(<<Leaf("href", DAV)>>),
    Multistatus(<<ResponseElem(TimedPayload)>>),
    Multistatus(<<ResponseElem(NoUidPayload)>>),
    Multistatus(<<ResponseElem(TimedPayload), ResponseElem(NoUidPayload),
                  ResponseElem(AllDayPayload)>>),
    Multistatus(<<ResponseElem(TimedPayload), ResponseElem(AllDayPayload),
                  ResponseElem(MidnightPayload)>>),
    Multistatus(<<ResponseElem(NoUidPayload), ResponseElem(TimedPayload),
                  ResponseElem(TimedPayload)>>),
    \* a response below a response, after an unrelated sibling
    Multistatus(<<Elem("response", DAV, <<>>,
                       <<Leaf("href", DAV), ResponseElem(TimedPayload)>>)>>),
    \* a response two levels down, before one at the top
    Multistatus(<<Elem("sync", DAV, <<>>, <<ResponseElem(AllDayPayload)>>),
                  ResponseElem(TimedPayload)>>),
    \* names and namespaces that do not match, at each level of the walk
    Multistatus(<<Elem("response", "urn:other", <<>>, ResponseElem(TimedPayload).children),
                  Elem("response", DAV, <<>>,
                       <<Elem("propstat", "urn:other", <<>>,
                              ResponseElem(MidnightPayload).children[2].children),
                         Elem("propstat", DAV, <<>>,
                              <<Elem("prop", "urn:other", <<>>,
                                     <<Elem("calendar-data", CALDAV, MidnightPayload, <<>>)>>),
                                Elem("prop", DAV, <<>>,
                                     <<Elem("calendar-data", DAV, MidnightPayload, <<>>),
                                       Elem("calendar-data", CALDAV, TimedPayload, <<>>),
                                       Elem("comment", CALDAV, MidnightPayload, <<>>),
                                       Elem("calendar-data", CALDAV, AllDayPayload, <<>>)>>),
                                Leaf("status", DAV)>>),
                         Leaf("href", DAV),
                         Elem("propstat", DAV, <<>>,
                              <<Elem("prop", DAV, <<>>,
                                     <<Elem("calendar-data", CALDAV, NoUidPayload, <<>>)>>)>>)>>)>>) }

HttpOutcomes ==
  [transport : BOOLEAN, status : {200, 207, 301, 404, 500}, wellformed : BOOLEAN,
   root : Docs]

FetchInit ==
  /\ NoProcess /\ NoSchedule /\ NoOrdering /\ NoParsing
  /\ fetchIn \in HttpOutcomes /\ fetchOut = NoOut

\* get_events_message, and the get_calendar_events call inside it
FetchApply ==
  /\ ~fetchOut.done
  /\ fetchOut' = [done |-> TRUE, events |-> get_calendar_events(fetchIn),
                  body |-> get_events_message(fetchIn).body,
                  html_body |-> get_events_message(fetchIn).html_body,
                  elems |-> sub_request_and_extract_elems(fetchIn, "response"),
                  datas |-> IF sub_request_and_extract_elems(fetchIn, "response").ok
                            THEN extract_calendar_data(
                                   sub_request_and_extract_elems(fetchIn, "response").v)
                            ELSE <<>>]
  /\ UNCHANGED <<durable, server, process, ghost, fetchIn, schedule, ordering, parsing>>

FetchNext == FetchApply

FetchSpec == FetchInit /\ [][FetchNext]_vars

\* --------------------------------------- the weekly schedule on its own
\* The process starts at any hour of a week; the clock then runs, and a tick
\* of an interval completes at its deadline.
ScheduleInit ==
  /\ NoProcess /\ NoFetch /\ NoOrdering /\ NoParsing
  /\ clock \in 0..(Week - 1)
  /\ weekly = [r \in WatchIds |-> NoTask]

\* post_weekly_message up to interval_at, for the task main spawned for r
WeeklyStart(r) ==
  /\ weekly[r].state = "none"
  /\ weekly' = [weekly EXCEPT ![r] =
                  [NoTask EXCEPT !.state = "running", !.now = clock,
                                 !.next = start(clock)]]
  /\ UNCHANGED <<durable, server, process, ghost, fetch, clock, ordering, parsing>>

\* post_weekly_message: interval.tick() completes and the loop body runs
WeeklyTick(r) ==
  /\ weekly[r].state = "running"
  /\ weekly[r].next = clock
  /\ \E o \in FireOutcomes :
       weekly' = [weekly EXCEPT ![r] =
                    [@ EXCEPT !.n = @ + 1, !.last = clock, !.before = weekly[r].outcome,
                              !.outcome = o, !.next = NextTick(weekly[r].next, o)]]
  /\ UNCHANGED <<durable, server, process, ghost, fetch, clock, ordering, parsing>>

\* an hour passes: every task is asleep until a later deadline
Advance ==
  /\ clock < MaxWeeks * Week
  /\ \A r \in WatchIds : weekly[r].state = "running" /\ weekly[r].next > clock
  /\ clock' = clock + 1
  /\ UNCHANGED <<durable, server, process, ghost, fetch, weekly, ordering, parsing>>

ScheduleNext ==
  \/ \E r \in WatchIds : WeeklyStart(r)
  \/ \E r \in WatchIds : WeeklyTick(r)
  \/ Advance

ScheduleSpec == ScheduleInit /\ [][ScheduleNext]_vars

\* ------------------------------------ the order of EventTime on its own
TimesOfDay == {0, 43200}
EventTimes ==
  {Date(d) : d \in 1..MaxDay}
    \cup {DateTime(d, t) : d \in 1..MaxDay, t \in TimesOfDay}

OrderInit ==
  /\ NoProcess /\ NoFetch /\ NoSchedule /\ NoParsing
  /\ cmpIn \in EventTimes \X EventTimes \X EventTimes
  /\ cmpOut = NoCmp

\* cmp and eq applied to the pairs of the three values, and
\* format_event_times to the first as start and the second as end
CmpApply ==
  /\ ~cmpOut.done
  /\ cmpOut' = [done |-> TRUE,
                 ab |-> EventTimeCmp(cmpIn[1], cmpIn[2]),
                 ba |-> EventTimeCmp(cmpIn[2], cmpIn[1]),
                 bc |-> EventTimeCmp(cmpIn[2], cmpIn[3]),
                 ac |-> EventTimeCmp(cmpIn[1], cmpIn[3]),
                 eq |-> EventTimeEq(cmpIn[1], cmpIn[2]),
                 rendered |-> format_event_times(cmpIn[1], cmpIn[2])]
  /\ UNCHANGED <<durable, server, process, ghost, fetch, schedule, cmpIn, parsing>>

OrderNext == CmpApply

OrderSpec == OrderInit /\ [][OrderNext]_vars

\* --------------------------------------------------- parse on its own
\* what the iCal reader yields for text that is no calendar object
BadItem == [ok |-> FALSE, events |-> <<>>, todos |-> 0, journals |-> 0]
Calendar(events, todos, journals) ==
  [ok |-> TRUE, events |-> events, todos |-> todos, journals |-> journals]

BadTime == TimeText("bad", 0, 0)
NoTime == [some |-> FALSE, s |-> BadTime]

\* the property lists of an event: under each name, in the order given, the
\* properties it can carry
EventProps ==
  LET SummaryOpts ==
        {<<>>, <<Prop("SUMMARY", Some(<<"X">>))>>, <<Prop("SUMMARY", NoValue)>>}
      UidOpts == {<<>>, <<Prop("UID", Some(<<"u">>))>>}
      StartOpts ==
        {<<>>,
         <<Prop("DTSTART", Some(TimeText("utc", 17, 50400)))>>,
         <<Prop("DTSTART", Some(TimeText("local", 17, 50400)))>>,
         <<Prop("DTSTART", Some(TimeText("date", 16, 0)))>>,
         <<Prop("DTSTART", Some(TimeText("date", 18, 0)))>>,
         <<Prop("DTSTART", Some(BadTime))>>,
         <<Prop("DTSTART", NoTime)>>,
         <<Prop("DTSTART", Some(TimeText("utc", 17, 50400))),
           Prop("DTSTART", Some(BadTime))>>,
         <<Prop("DTSTART", Some(BadTime)),
           Prop("DTSTART", Some(TimeText("date", 16, 0)))>>}
      EndOpts ==
        {<<>>,
         <<Prop("DTEND", Some(TimeText("utc", 17, 54000)))>>,
         <<Prop("DTEND", Some(TimeText("date", 17, 0)))>>,
         <<Prop("DTEND", Some(BadTime))>>}
      ModifiedOpts ==
        {<<>>,
         <<Prop("LAST-MODIFIED", Some(TimeText("utc", 10, 0)))>>,
         <<Prop("LAST-MODIFIED", Some(TimeText("local", 10, 0)))>>}
  IN {su \o ui \o st \o en \o mo :
        su \in SummaryOpts, ui \in UidOpts, st \in StartOpts, en \in EndOpts,
        mo \in ModifiedOpts}

GoodEvent == TimedPayload[1].events[1]

\* the payloads handed to parse: one calendar object with one event of any
\* of the property lists; calendar objects with no, one or two events, with
\* or without a to-do and a journal, alone or followed by more text; no
\* calendar object at all
Payloads ==
  {<<>>, <<BadItem>>}
    \cup {<<Calendar(<<e>>, 0, 0)>> : e \in EventProps}
    \cup {<<Calendar(evs, t, j)>> \o more :
             evs \in {<<>>, <<GoodEvent>>, <<GoodEvent, GoodEvent>>},
             t \in {0, 1}, j \in {0, 1},
             more \in {<<>>, <<BadItem>>, <<Calendar(<<GoodEvent>>, 0, 0)>>}}
    \cup {<<Calendar(<<NoUidPayload[1].events[1]>>, 0, 0), Calendar(<<GoodEvent>>, 0, 0)>>}

ParseInit ==
  /\ NoProcess /\ NoFetch /\ NoSchedule /\ NoOrdering
  /\ parseIn \in Payloads
  /\ parseOut = NoParse

\* parse, and the rendering of the times of the event it returns
ParseApply ==
  /\ ~parseOut.done
  /\ parseOut' =
       [done |-> TRUE,
        result |-> parse(parseIn),
        rendered |-> IF parse(parseIn).ok
                     THEN format_event_times(parse(parseIn).v.dtstart,
                                             parse(parseIn).v.dtend)
                     ELSE <<>>]
  /\ UNCHANGED <<durable, server, process, ghost, fetch, schedule, ordering, parseIn>>

ParseNext == ParseApply

ParseSpec == ParseInit /\ [][ParseNext]_vars

\* ================================================================= claims

\* C1: in the listening loop, once a batch has completed the session file
\* holds the next_batch cursor of the last completed batch (an empty batch
\* included); a process killed between two batches and restarted issues its
\* first sync request with that cursor, and the response to it starts where
\* that batch ended.
C1_CursorPersisted ==
  /\ (pc \in {"wait", "dispatch", "persist"} /\ lastNext # None)
        => file.sync_token = lastNext
  /\ (resumeFrom # None /\ pc # "down" /\ firstReq # NoReq) => firstReq = Req(resumeFrom)
  /\ (resumeFrom # None /\ pc = "initial_persist")
        => batch.from = issued[resumeFrom]

\* a process killed after an empty batch completed has restarted and got
\* the response to its first sync request
C1_Witness ==
  /\ resumeFrom # None /\ resumeFrom >= 2
  /\ issued[resumeFrom] = issued[resumeFrom - 1]
  /\ pc = "initial_persist"
  /\ firstReq = Req(resumeFrom)
  /\ file.sync_token = resumeFrom

\* C2: whatever step the process is killed at, and however often it is
\* restarted from the session file, no timeline event is handed to the
\* message handler more than once.
C2_NoRedelivery == \A i \in 1..Len(hist) : hist[i].disp <= 1

\* a restored session gets, in its initial sync, an event that an earlier
\* invocation had handled before it could write the cursor
C2_Witness ==
  /\ mode = "restore"
  /\ pc = "initial_persist"
  /\ \E i \in (batch.from + 1)..batch.to : hist[i].disp = 1

\* C3: an invocation that found a session file restores from it: it never
\* calls login_username, the connection parameters and the user session in
\* the file stay as found, and its first sync request carries the cursor
\* found in the file (none when the file had none).
C3_Restore ==
  (mode = "restore" /\ pc # "down") =>
     /\ logins = 0
     /\ file.exists
     /\ file.homeserver = startFile.homeserver
     /\ file.db_path = startFile.db_path
     /\ file.passphrase = startFile.passphrase
     /\ file.user_session = startFile.user_session
     /\ firstReq # NoReq => firstReq = Req(startFile.sync_token)
     /\ pc \notin {"restore", "login"} =>
          /\ client.homeserver = startFile.homeserver
          /\ client.db_path = startFile.db_path
          /\ client.passphrase = startFile.passphrase
          /\ client.user_session = startFile.user_session

\* a restored session has synced from the cursor it found and has moved the
\* cursor on
C3_Witness ==
  /\ mode = "restore" /\ pc = "wait"
  /\ startFile.sync_token # None
  /\ firstReq = Req(startFile.sync_token)
  /\ file.sync_token # startFile.sync_token

\* C4: an invocation that found no session file and logged in has written a
\* session file with the user session, the connection parameters of its
\* client and no cursor before its first sync request, and that request
\* carries no cursor.
C4_Login ==
  /\ (mode = "login" /\ pc \notin {"down", "login"}) =>
        /\ file.exists
        /\ file.homeserver = client.homeserver
        /\ file.db_path = client.db_path
        /\ file.passphrase = client.passphrase
        /\ file.user_session = client.user_session
        /\ client.user_session # ""
        /\ pc \in {"spawn", "initial_sync", "initial_dispatch", "initial_persist"}
             => file.sync_token = None
  /\ (mode = "login" /\ firstReq # NoReq) => (file.exists /\ firstReq = Req(None))

\* a fresh login has issued its first sync request
C4_Witness ==
  /\ mode = "login" /\ pc = "initial_persist"
  /\ firstReq = Req(None)
  /\ file.exists /\ file.sync_token = None

\* C5: once login_username has returned an error the invocation has ended:
\* login was called once, no session file was written, no sync request was
\* issued and no weekly task runs.
C5_LoginFailure ==
  mode = "login_failed" =>
     /\ pc = "down"
     /\ outcome = "login_failed"
     /\ logins = 1
     /\ ~file.exists
     /\ firstReq = NoReq
     /\ \A r \in WatchIds : tasks[r] = "none"

\* an invocation has ended on a failed login
C5_Witness ==
  /\ mode = "login_failed" /\ outcome = "login_failed" /\ logins = 1

\* the initial sync loop is left only by a successful sync_once, and the
\* listening loop is entered only from the cursor write of that sync, with
\* the cursor of its response in the session file
C6_EntersListening ==
  [][ /\ pc = "initial_sync"
         => pc' \in {"initial_sync", "initial_dispatch", "initial_persist"}
      /\ (pc' = "wait" /\ pc \notin {"wait", "persist"})
         => /\ pc = "initial_persist"
            /\ batch.next = Len(issued)
            /\ file'.sync_token = batch.next
            /\ token' = batch.next ]_vars

\* C6 as stated: the initial sync is retried after every failure, listening
\* starts right after the cursor write of the first successful initial sync,
\* and if sync attempts do not fail forever listening is reached.
C6_Original ==
  /\ C6_EntersListening
  /\ (pc = "initial_sync" /\ CanSync) ~> (pc = "wait")

\* C6 (amended): as above, but listening is reached unless the cursor write
\* of the successful initial sync fails, which ends sync with that error.
C6_ListeningOrPersistError ==
  /\ C6_EntersListening
  /\ (pc = "initial_sync" /\ CanSync) ~> (pc = "wait" \/ outcome = "persist_failed")

\* the initial sync succeeded after a failed attempt and listening has begun
C6_Witness ==
  /\ pc = "wait" /\ lastNext = None
  /\ firstReq # NoReq
  /\ file.sync_token = token /\ token = batch.next
  /\ Len(issued) >= 2

\* the configured watch-list, and the bodies that hold "!cal" or "!calendar"
WatchList == {<<"a">>, <<"b">>}
HasAt(body, i, word) ==
  /\ i + Len(word) - 1 <= Len(body)
  /\ \A j \in 1..Len(word) : body[i + j - 1] = word[j]
HoldsCommand(body) ==
  \E i \in 1..Len(body) :
     \/ HasAt(body, i, <<"!", "c", "a", "l">>)
     \/ HasAt(body, i, <<"!", "c", "a", "l", "e", "n", "d", "a", "r">>)
ShouldAnswer(m) ==
  /\ roomState[m.room] = "Joined"
  /\ m.room \in WatchList
  /\ m.msgtype = "Text"
  /\ HoldsCommand(m.body)

\* C7: a message handed to the handler gets a digest sent if and only if its
\* room is Joined, the room id is in the watch-list, it is a text message and
\* its body holds "!calendar" or "!cal"; the digest goes to the room of the
\* message.
C7_DigestIff ==
  \A i \in 1..Len(hist) :
     /\ (hist[i].sends > 0) <=> (hist[i].disp > 0 /\ ShouldAnswer(log[i]))
     /\ hist[i].sends > 0 => hist[i].to = log[i].room

\* one message was answered in its room, another was handled and not answered
C7_Witness ==
  \E i, j \in 1..Len(hist) :
     /\ hist[i].sends = 1 /\ hist[i].to = log[i].room
     /\ log[i].sender = OtherUser
     /\ hist[j].disp = 1 /\ hist[j].sends = 0 /\ log[j].room = <<"a">>

\* C8: one run of the handler on a trigger message makes exactly one send
\* attempt, also when that attempt fails, and leaves the sync loop running:
\* the loop goes on to the next event of the batch or to the cursor write.
C8_OneSendNoRetry ==
  [][ \A i \in 1..Len(hist) :
        hist'[i].disp = hist[i].disp + 1 =>
           /\ hist'[i].sends = hist[i].sends + (IF ShouldAnswer(log[i]) THEN 1 ELSE 0)
           /\ pos' = i
           /\ pc' = IF i < batch.to THEN pc
                    ELSE IF pc = "dispatch" THEN "persist" ELSE "initial_persist"
           /\ outcome' = "running" ]_vars

\* a send failed, and the loop has since written the cursor of that batch and
\* of a later one
C8_Witness ==
  \E i \in 1..Len(hist) :
     /\ hist[i].sends = 1 /\ ~hist[i].ok
     /\ pc = "wait" /\ lastNext # None
     /\ file.sync_token = lastNext
     /\ issued[lastNext] >= i
     /\ issued[lastNext - 1] >= i

\* C9: when the request fails entirely (transport error, non-2xx status, or
\* a body that is not well-formed XML) the digest is the "Failed to get
\* calendar events" message.
C9_FailedDigest ==
  (fetchOut.done /\ FetchFailed(fetchIn)) => fetchOut.body = FailedBody

\* C10: get_calendar_events returns Ok for every outcome of the request; a
\* transport error, a non-2xx status and a body that is not well-formed XML
\* give the empty sequence, and so does a well-formed response without any
\* response element.
C10_NeverError ==
  fetchOut.done =>
     /\ fetchOut.events.ok
     /\ FetchFailed(fetchIn) => fetchOut.events.v = <<>>
     /\ (~FetchFailed(fetchIn) /\ find_elems(fetchIn.root, "response") = <<>>)
          => fetchOut.events.v = <<>>

\* a 500 answer whose body holds an event has been turned into Ok(empty)
C10_Witness ==
  /\ fetchOut.done
  /\ ~fetchIn.transport /\ fetchIn.status = 500 /\ fetchIn.wellformed
  /\ extract_calendar_data(find_elems(fetchIn.root, "response")) # <<>>
  /\ fetchOut.events = Ok(<<>>)

\* the earliest Sunday 09:00 UTC that is not before the hour t
SundayNine == 6 * 24 + 9
EarliestSundayNine(t) == t + ((SundayNine + 168 - (t % 168)) % 168)

\* C11: the first firing of a room's weekly task happens at the earliest
\* Sunday 09:00 UTC that is not before the start of the task, and every
\* firing happens at 09:00 UTC on a Sunday.
C11_FirstAtNextSunday ==
  \A r \in WatchIds :
     /\ weekly[r].n >= 1 => weekly[r].last % 168 = SundayNine
     /\ weekly[r].n = 1 => weekly[r].last = EarliestSundayNine(weekly[r].now)

\* C12: consecutive firings of one task are exactly 7 days apart whatever
\* the earlier firing came to; a firing is not repeated, the task goes on
\* with its next deadline 7 days later, and the task of another room is left
\* as it was.
C12_SevenDaysApart ==
  [][ \A r \in WatchIds :
        weekly'[r].n # weekly[r].n =>
           /\ weekly'[r].n = weekly[r].n + 1
           /\ weekly'[r].last = clock
           /\ weekly[r].n >= 1 => weekly'[r].last - weekly[r].last = 7 * 24
           /\ weekly'[r].state = "running"
           /\ weekly'[r].next = clock + 7 * 24
           /\ \A q \in WatchIds \ {r} : weekly'[q] = weekly[q] ]_vars

\* a task fired again 7 days after a firing whose send failed, while the
\* firing of the other task at that time found no room
C12_Witness ==
  \E r, q \in WatchIds :
     /\ r # q
     /\ weekly[r].n = 2 /\ weekly[r].before = "send_failed"
     /\ weekly[r].last = clock
     /\ weekly[q].n = 2 /\ weekly[q].before = "no_room" /\ weekly[q].outcome = "sent"

\* C13: a member event of an invitation that is handed to the handler gets
\* exactly one join attempt if its state key is the user id of the bot and
\* none otherwise; a join that fails is not tried again, and the sync loop
\* goes on to the next event of the batch or to the cursor write.
C13_InviteAccepted ==
  /\ [](\A i \in 1..Len(hist) :
          log[i].msgtype = "m.room.member" =>
             hist[i].joins =
               (IF hist[i].disp > 0 /\ log[i].state_key = "@bot" THEN 1 ELSE 0))
  /\ [][ \A i \in 1..Len(hist) :
          (hist'[i].disp = hist[i].disp + 1 /\ log[i].msgtype = "m.room.member") =>
             /\ hist'[i].joins =
                  hist[i].joins + (IF log[i].state_key = "@bot" THEN 1 ELSE 0)
             /\ \A r \in Rooms \ {log[i].room} : roomState'[r] = roomState[r]
             /\ roomState'[log[i].room] \in {roomState[log[i].room], "Joined"}
             /\ log[i].state_key # "@bot" => roomState' = roomState
             /\ pos' = i
             /\ pc' = IF i < batch.to THEN pc
                      ELSE IF pc = "dispatch" THEN "persist" ELSE "initial_persist"
             /\ outcome' = "running" ]_vars

\* the join of an invitation failed and the room is still Invited; the
\* membership of the inviting user was handed to the handler without a join;
\* the loop has since written the cursor of that batch
C13_Witness ==
  \E i, j \in 1..Len(hist) :
     /\ log[i].msgtype = "m.room.member" /\ log[i].state_key = "@bot"
     /\ hist[i].disp = 1 /\ hist[i].joins = 1 /\ ~hist[i].ok
     /\ roomState[log[i].room] = "Invited"
     /\ log[j].msgtype = "m.room.member" /\ log[j].state_key = "@alice"
     /\ hist[j].disp = 1 /\ hist[j].joins = 0
     /\ pc = "wait" /\ lastNext # None
     /\ file.sync_token = lastNext
     /\ issued[lastNext] >= i /\ issued[lastNext] >= j

\* C14: a cursor write that fails (in the initial sync or after a batch) and
\* a failed sync request of the listening loop each end the process with that
\* error: the loop is left only with the cursor of the batch written or with
\* the process down, nothing is tried again, and no batch is received or
\* handled after the error.
C14_ErrorsEndSync ==
  /\ [](outcome \in {"persist_failed", "sync_error"} =>
          /\ pc = "down" /\ batch = NoBatch /\ ~handlers
          /\ \A r \in WatchIds : tasks[r] = "none")
  /\ [][ /\ (pc \in {"initial_persist", "persist"} /\ pc' # pc) =>
              \/ pc' = "wait" /\ file'.sync_token = batch.next
              \/ pc' = "down" /\ file' = file
         /\ (pc = "wait" /\ pc' # pc) =>
              \/ pc' \in {"dispatch", "persist"} /\ Len(issued') = Len(issued) + 1
              \/ pc' = "down"
         /\ (outcome = "running" /\ outcome' = "persist_failed") =>
              /\ pc \in {"initial_persist", "persist"}
              /\ UNCHANGED <<file, issued, log, hist>>
         /\ (outcome = "running" /\ outcome' = "sync_error") =>
              /\ pc = "wait"
              /\ UNCHANGED <<file, issued, log, hist>>
         /\ (outcome \in {"persist_failed", "sync_error"} /\ outcome' = outcome) =>
              /\ UNCHANGED <<file, issued>>
              /\ \A i \in 1..Len(hist) : hist'[i] = hist[i] ]_vars

\* a cursor write failed after an earlier one had succeeded: the process is
\* down and the file holds the earlier cursor, not that of the last response
C14_Witness ==
  /\ outcome = "persist_failed" /\ pc = "down"
  /\ file.sync_token # None
  /\ file.sync_token < Len(issued)

\* the payloads collected from a response, and the positions of those that
\* parse
Collected(http) == extract_calendar_data(find_elems(http.root, "response"))
ParsedAt(datas) == {i \in 1..Len(datas) : parse(datas[i]).ok}
Occurrences(events, e) == Cardinality({j \in 1..Len(events) : events[j] = e})

\* C15: the sequence get_calendar_events returns holds one event for each
\* collected payload that parses and none for a payload that fails, wherever
\* in the response the failing payload stands.
C15_OnePerParsedPayload ==
  (fetchOut.done /\ ~FetchFailed(fetchIn)) =>
     LET datas == Collected(fetchIn)
         events == fetchOut.events.v
     IN /\ Len(events) = Cardinality(ParsedAt(datas))
        /\ \A i \in ParsedAt(datas) :
              Occurrences(events, parse(datas[i]).v) =
                Cardinality({k \in ParsedAt(datas) : parse(datas[k]).v = parse(datas[i]).v})

\* a response whose first payload fails to parse gave the events of its two
\* later payloads
C15_Witness ==
  /\ fetchOut.done /\ ~FetchFailed(fetchIn)
  /\ Len(Collected(fetchIn)) = 3
  /\ ~parse(Collected(fetchIn)[1]).ok
  /\ Len(fetchOut.events.v) = 2

\* the start of an event as seconds, an all-day start taken at midnight UTC
StartKey(e) ==
  e.dtstart.day * 86400 + (IF e.dtstart.tag = "DateTime" THEN e.dtstart.secs ELSE 0)

\* C16: the sequence get_calendar_events returns is in non-decreasing order
\* of start, an all-day start Date(D) ordered as midnight UTC of D.
C16_SortedByStart ==
  fetchOut.done =>
     \A i, j \in 1..Len(fetchOut.events.v) :
        i < j => StartKey(fetchOut.events.v[i]) <= StartKey(fetchOut.events.v[j])

\* a response that lists a timed event before an earlier all-day event and an
\* earlier timed one came back in order of start
C16_Witness ==
  /\ fetchOut.done /\ ~FetchFailed(fetchIn)
  /\ Len(fetchOut.events.v) = 3
  /\ parse(Collected(fetchIn)[1]).v = fetchOut.events.v[3]
  /\ fetchOut.events.v[1].dtstart.tag = "Date"
  /\ fetchOut.events.v[2].dtstart.tag = "DateTime"
  /\ StartKey(fetchOut.events.v[1]) = StartKey(fetchOut.events.v[2])

\* the instant an EventTime stands for, a date being its midnight UTC
Instant(t) == t.day * 86400 + (IF t.tag = "DateTime" THEN t.secs ELSE 0)
Reverse(o) == IF o = "Less" THEN "Greater" ELSE IF o = "Greater" THEN "Less" ELSE "Equal"
AtMost(o) == o \in {"Less", "Equal"}

\* C17: cmp on EventTime is a total order over all four combinations of
\* variants: cmp(b, a) is the reverse of cmp(a, b), cmp is transitive also
\* across variants, exactly one of Less, Equal, Greater holds and it is the
\* order of the instants with a date taken at midnight UTC, so Date(D) is
\* Equal to DateTime(D 00:00:00); a == b holds exactly when cmp(a, b) is Equal.
C17_TotalOrder ==
  cmpOut.done =>
     /\ cmpOut.ba = Reverse(cmpOut.ab)
     /\ (AtMost(cmpOut.ab) /\ AtMost(cmpOut.bc)) => AtMost(cmpOut.ac)
     /\ (cmpOut.ab = "Equal" /\ cmpOut.bc = "Equal") => cmpOut.ac = "Equal"
     /\ (AtMost(cmpOut.ab) /\ AtMost(cmpOut.bc)
           /\ "Less" \in {cmpOut.ab, cmpOut.bc}) => cmpOut.ac = "Less"
     /\ cmpOut.ab = (IF Instant(cmpIn[1]) < Instant(cmpIn[2]) THEN "Less"
                     ELSE IF Instant(cmpIn[1]) > Instant(cmpIn[2]) THEN "Greater"
                     ELSE "Equal")
     /\ cmpOut.eq <=> cmpOut.ab = "Equal"

\* a date compared Equal to the midnight of its day and Less than its noon
C17_Witness ==
  /\ cmpOut.done
  /\ cmpIn[1].tag = "Date"
  /\ cmpIn[2] = [tag |-> "DateTime", day |-> cmpIn[1].day, secs |-> 0]
  /\ cmpIn[3] = [tag |-> "DateTime", day |-> cmpIn[1].day, secs |-> 43200]
  /\ cmpOut.ab = "Equal" /\ cmpOut.eq /\ cmpOut.ac = "Less" /\ cmpOut.bc = "Less"

\* the payload holds one calendar object with one event and nothing else
SingleEvent(content) ==
  /\ Len(content) >= 1 /\ content[1].ok
  /\ Len(content[1].events) = 1
  /\ content[1].todos = 0 /\ content[1].journals = 0

\* the event carries the field n: the property of that name that stands last
\* has a value, written in one of the given forms when forms are given
Carries(props, n, forms) ==
  \E i \in 1..Len(props) :
     /\ props[i].name = n
     /\ \A j \in (i + 1)..Len(props) : props[j].name # n
     /\ props[i].value.some
     /\ forms # {} => props[i].value.s.form \in forms
EventTimeForms == {"utc", "local", "date"}
TimestampForms == {"utc"}

\* the error for the first mandatory field the event lacks, "" if it lacks none
FirstMissing(props) ==
  IF ~Carries(props, "SUMMARY", {}) THEN "Missing name"
  ELSE IF ~Carries(props, "UID", {}) THEN "Missing UID"
  ELSE IF ~Carries(props, "DTSTART", EventTimeForms) THEN "Missing DTSTART"
  ELSE IF ~Carries(props, "DTEND", EventTimeForms) THEN "Missing DTEND"
  ELSE IF ~Carries(props, "LAST-MODIFIED", TimestampForms) THEN "Missing LAST-MODIFIED"
  ELSE ""

\* C18: parse of a payload with a single event succeeds only if the event
\* carries SUMMARY, UID, a parseable DTSTART, a parseable DTEND and a
\* parseable LAST-MODIFIED; if it lacks one, parse fails with the error that
\* names the first field it lacks, a DTSTART, DTEND or LAST-MODIFIED whose
\* value cannot be parsed counting as lacking.
C18_MandatoryFields ==
  (parseOut.done /\ SingleEvent(parseIn)) =>
     LET props == parseIn[1].events[1] IN
     /\ parseOut.result.ok => FirstMissing(props) = ""
     /\ FirstMissing(props) # "" =>
          (~parseOut.result.ok /\ parseOut.result.err = FirstMissing(props))

\* an event that carries a DTSTART whose value cannot be parsed, and lacks
\* no other field, was refused for its missing DTSTART
C18_Witness ==
  /\ parseOut.done /\ SingleEvent(parseIn)
  /\ \E i \in 1..Len(parseIn[1].events[1]) :
        /\ parseIn[1].events[1][i].name = "DTSTART"
        /\ parseIn[1].events[1][i].value.some
        /\ parseIn[1].events[1][i].value.s.form = "bad"
  /\ Carries(parseIn[1].events[1], "DTEND", EventTimeForms)
  /\ Carries(parseIn[1].events[1], "LAST-MODIFIED", TimestampForms)
  /\ ~parseOut.result.ok /\ parseOut.result.err = "Missing DTSTART"

\* the variant and the day of the value that decides a time field
Deciding(props, n) ==
  props[CHOOSE i \in 1..Len(props) :
          props[i].name = n /\ \A j \in (i + 1)..Len(props) : props[j].name # n].value.s
VariantOf(text) == IF text.form = "date" THEN "Date" ELSE "DateTime"

\* C19: an event parse returns has start and end of one variant, and if it
\* is all-day its start date is not after its end date; a DTSTART and DTEND
\* of different variants, and an all-day DTSTART after DTEND, make parse
\* fail; the times of a returned event are never rendered as "Invalid Date:
\* Check Calendar".
C19_ConsistentTimes ==
  parseOut.done =>
     /\ parseOut.result.ok =>
          /\ parseOut.result.v.dtstart.tag = parseOut.result.v.dtend.tag
          /\ parseOut.result.v.dtstart.tag = "Date" =>
               parseOut.result.v.dtstart.day <= parseOut.result.v.dtend.day
          /\ parseOut.rendered # <<"Invalid Date: Check Calendar">>
     /\ (SingleEvent(parseIn) /\ FirstMissing(parseIn[1].events[1]) = "") =>
          LET dtstart == Deciding(parseIn[1].events[1], "DTSTART")
              dtend == Deciding(parseIn[1].events[1], "DTEND")
          IN /\ VariantOf(dtstart) # VariantOf(dtend) => ~parseOut.result.ok
             /\ (VariantOf(dtstart) = "Date" /\ VariantOf(dtend) = "Date"
                   /\ dtstart.day > dtend.day) => ~parseOut.result.ok

\* an all-day event that starts after it ends was refused
C19_Witness ==
  /\ parseOut.done /\ SingleEvent(parseIn)
  /\ FirstMissing(parseIn[1].events[1]) = ""
  /\ Deciding(parseIn[1].events[1], "DTSTART").form = "date"
  /\ Deciding(parseIn[1].events[1], "DTEND").form = "date"
  /\ Deciding(parseIn[1].events[1], "DTSTART").day > Deciding(parseIn[1].events[1], "DTEND").day
  /\ ~parseOut.result.ok /\ parseOut.result.err = "DTSTART is after DTEND"

\* C20: parse succeeds only if the first calendar object of the payload
\* decodes and holds exactly one event, no to-do and no journal, and no
\* second calendar object decodes after it.
C20_SingleEventOnly ==
  (parseOut.done /\ parseOut.result.ok) =>
     /\ Len(parseIn) >= 1 /\ parseIn[1].ok
     /\ Len(parseIn[1].events) = 1
     /\ parseIn[1].todos = 0 /\ parseIn[1].journals = 0
     /\ ~(Len(parseIn) >= 2 /\ parseIn[2].ok)

\* a payload whose single, complete event is followed by a second calendar
\* object was refused
C20_Witness ==
  /\ parseOut.done /\ SingleEvent(parseIn)
  /\ FirstMissing(parseIn[1].events[1]) = ""
  /\ Len(parseIn) = 2 /\ parseIn[2].ok
  /\ ~parseOut.result.ok
  /\ parseOut.result.err = "Parsing multiple items are not supported"


RECURSIVE Descendants(_, _)
RECURSIVE DescendantsOf(_, _)
\* the elements of that local name among the children and below them, a
\* parent before its children, in the order of the document
DescendantsOf(children, name) ==
  IF children = <<>> THEN <<>>
  ELSE (IF Head(children).name = name THEN <<Head(children)>> ELSE <<>>)
       \o Descendants(Head(children), name)
       \o DescendantsOf(Tail(children), name)

Descendants(el, name) == DescendantsOf(el.children, name)

\* C21: find_elems returns every descendant element of the searched local
\* name, at any depth, also one that lies below another element of that name,
\* each once and in depth-first document order.
C21_EveryDescendant ==
  (fetchOut.done /\ fetchOut.elems.ok)
    => fetchOut.elems.v = Descendants(fetchIn.root, "response")

\* the places the walk visits in the elements it is given: element i, its
\* child j, that one's child k and that one's child l, each of the name and
\* namespace of its level
WalkPaths(root) ==
  UNION { UNION { UNION { { <<i, j, k, l>> :
      l \in { l \in DOMAIN root[i].children[j].children[k].children :
              /\ root[i].children[j].children[k].children[l].name = "calendar-data"
              /\ root[i].children[j].children[k].children[l].ns = CALDAV } } :
      k \in { k \in DOMAIN root[i].children[j].children :
              /\ root[i].children[j].children[k].name = "prop"
              /\ root[i].children[j].children[k].ns = DAV } } :
      j \in { j \in DOMAIN root[i].children :
              root[i].children[j].name = "propstat" /\ root[i].children[j].ns = DAV } } :
      i \in { i \in DOMAIN root : root[i].name = "response" /\ root[i].ns = DAV } }

\* p is q or comes before q in the document
NotAfter(p, q) ==
  p = q \/ \E n \in 1..4 : p[n] < q[n] /\ \A m \in 1..(n - 1) : p[m] = q[m]

\* C22: the walk response -> propstat -> prop -> calendar-data over the
\* elements it is given returns exactly the text of every calendar-data
\* element of the CalDAV namespace under DAV: response, propstat and prop
\* elements, in document order; an element whose name or namespace does not
\* match is skipped, and other siblings change nothing.
C22_ExtractionWalk ==
  (fetchOut.done /\ fetchOut.elems.ok) =>
    LET root == fetchOut.elems.v
        paths == WalkPaths(root)
    IN /\ Len(fetchOut.datas) = Cardinality(paths)
       /\ \A p \in paths :
            fetchOut.datas[Cardinality({q \in paths : NotAfter(q, p)})]
              = root[p[1]].children[p[2]].children[p[3]].children[p[4]].text

\* the document with a mismatch at every level went through the walk
C22_Witness ==
  /\ fetchOut.done /\ fetchOut.elems.ok
  /\ \E i \in DOMAIN fetchOut.elems.v : fetchOut.elems.v[i].ns # DAV
  /\ fetchOut.datas = <<TimedPayload, AllDayPayload, NoUidPayload>>


\* a rendering without the line break that ends it
WithoutLineEnd(line) ==
  IF line # <<>> /\ line[Len(line)] = "\n" THEN SubSeq(line, 1, Len(line) - 1) ELSE line

\* C23: format_event_times selects the rendering by case: two Dates with
\* end = start + 1 day give "<start> - All Day", two other Dates
\* "<start> - <end>"; two DateTimes on one UTC date give the start as a time
\* only and the end with date and time, two on different dates both with date
\* and time; a Date with a DateTime, either way round, gives
\* "Invalid Date: Check Calendar" (a line break at the end is not counted).
C23_RenderingByCase ==
  cmpOut.done =>
    LET s == cmpIn[1]
        e == cmpIn[2]
        line == WithoutLineEnd(cmpOut.rendered)
        Full(t) == FormatTime(t.secs) \o <<" ">> \o FormatDate(t.day)
    IN /\ (s.tag = "Date" /\ e.tag = "Date" /\ e.day = s.day + 1)
            => line = FormatDate(s.day) \o <<" - All Day">>
       /\ (s.tag = "Date" /\ e.tag = "Date" /\ e.day # s.day + 1)
            => line = FormatDate(s.day) \o <<" - ">> \o FormatDate(e.day)
       /\ (s.tag = "DateTime" /\ e.tag = "DateTime" /\ s.day = e.day)
            => line = FormatTime(s.secs) \o <<" - ">> \o Full(e)
       /\ (s.tag = "DateTime" /\ e.tag = "DateTime" /\ s.day # e.day)
            => line = Full(s) \o <<" - ">> \o Full(e)
       /\ s.tag # e.tag => line = <<"Invalid Date: Check Calendar">>

\* an all-day event of one day was rendered
C23_Witness ==
  /\ cmpOut.done
  /\ cmpIn[1] = Date(1) /\ cmpIn[2] = Date(2)
  /\ cmpOut.rendered = <<"Saturday", ", ", "1", " June, 2024", " - All Day">>


\* C24: the message handler runs the calendar fetch only for text messages in
\* joined, watched rooms whose body holds a trigger: a text message without
\* "!calendar" or "!cal" causes no fetch, and a trigger message causes one
\* fetch followed by one send.
C24_FetchOnlyOnTrigger ==
  \A i \in 1..Len(hist) :
     /\ hist[i].fetches > 0 => (log[i].msgtype = "Text" /\ HoldsCommand(log[i].body))
     /\ hist[i].sends > 0 => (hist[i].fetches = 1 /\ hist[i].sends = 1)


\* C25: once login has written the session record, only the listening task
\* writes it, in the initial sync and in the per-batch callback: no step of a
\* weekly task or of a message or invite handler changes it; and when the
\* next wait for a batch is issued, the cursor of the batch before it is in
\* the record.
C25_SingleWriter ==
  [][ /\ file' # file =>
           /\ IF file.exists THEN pc \in {"initial_persist", "persist"} ELSE pc = "login"
           /\ UNCHANGED <<log, hist, roomState, fires>>
      /\ (pc = "wait" /\ issued' # issued) =>
           (file.sync_token = batch.next /\ token = batch.next) ]_vars

\* a second wait was answered after a handler sent a digest and a weekly task
\* fired
C25_Witness ==
  /\ pc \in {"dispatch", "persist"}
  /\ Len(issued) >= 3
  /\ file.sync_token = token
  /\ fires > 0
  /\ \E i \in 1..Len(hist) : hist[i].sends > 0

\* C26: a failed attempt of the initial sync leaves the session record as it
\* is and registers no handler, and the loop stays in the initial sync with
\* the cursor (or the absence of one) the failed attempt was made with.
C26_FailedInitialSync ==
  [][ (/\ pc = "initial_sync"
       /\ issued' = issued /\ log' = log /\ fires' = fires
       /\ outcome' # "killed")
        => /\ pc' = "initial_sync"
           /\ file' = file
           /\ ~handlers /\ ~handlers'
           /\ token' = token
           /\ firstReq' # NoReq /\ firstReq'.token = token ]_vars

\* an attempt of the initial sync made with a stored cursor has failed
C26_Witness ==
  /\ pc = "initial_sync"
  /\ firstReq # NoReq
  /\ mode = "restore"
  /\ token # None /\ file.sync_token = token

\* C27: writing a cursor changes only the cursor field of the session
\* record: homeserver, store location, passphrase and user session stay as
\* login wrote them, the record is never deleted, and a stored cursor is
\* never reset to none.
C27_OnlyCursorChanges ==
  [][ file.exists =>
        /\ file'.exists
        /\ file'.homeserver = file.homeserver
        /\ file'.db_path = file.db_path
        /\ file'.passphrase = file.passphrase
        /\ file'.user_session = file.user_session
        /\ file.sync_token # None => file'.sync_token # None ]_vars

\* a stored cursor has been replaced by a later one
C27_Witness ==
  /\ startFile.exists /\ startFile.sync_token # None
  /\ file.sync_token # startFile.sync_token
  /\ file.passphrase = startFile.passphrase
  /\ pc = "wait"


\* C28: the message and invite handlers are registered only after the
\* initial sync has succeeded: while the initial sync runs neither handler
\* acts, no room is joined, and an event is only ever handled out of a batch
\* of the listening loop, which starts behind the batch of the initial sync.
C28_HandlersAfterInitialSync ==
  /\ [](handlers => pc \in {"wait", "dispatch", "persist"})
  /\ [][ (pc \in {"spawn", "initial_sync", "initial_dispatch", "initial_persist"})
           => (roomState' = roomState /\ (\A i \in 1..Len(hist) : hist'[i] = hist[i])) ]_vars
  /\ [][ \A i \in 1..Len(hist) :
           (hist'[i] # hist[i])
             => (pc = "dispatch" /\ handlers /\ batch.from = issued[token]
                 /\ i > batch.from) ]_vars

\* a command and an invitation of the bot came in the batch of the initial
\* sync; the loop listens, and neither was handled
C28_Witness ==
  /\ pc = "wait" /\ handlers
  /\ Len(issued) = 1 /\ batch.from = 0 /\ batch.to = 2
  /\ \E i, j \in 1..2 :
       /\ log[i].msgtype = "Text" /\ log[i].sender = OtherUser /\ HoldsCommand(log[i].body)
       /\ log[j].msgtype = Member /\ log[j].state_key = BotUser
  /\ \A i \in 1..2 : hist[i].disp = 0 /\ hist[i].sends = 0 /\ hist[i].joins = 0
  /\ roomState[<<"b">>] = "Invited"

\* C29: a digest the bot sent is never treated as a trigger when it comes
\* back in a later batch, whatever the event titles hold; so the digests sent
\* are never more than the trigger messages of other users plus the firings
\* of the weekly tasks.
C29_NoSelfTrigger ==
  /\ \A i \in 1..Len(log) : log[i].sender = BotUser => hist[i].sends = 0
  /\ Cardinality({i \in 1..Len(log) : log[i].sender = BotUser})
       <= Cardinality({i \in 1..Len(log) :
                         log[i].sender = OtherUser /\ HoldsCommand(log[i].body)})
          + fires

====
